---- MODULE Spec2Model ----
(***************************************************************************)
(* Request authorization of the coffee shop API: backend/src/auth/auth.py   *)
(* (get_token_auth_header, verify_decode_jwt, check_permissions,            *)
(* requires_auth) and the error handlers of backend/src/api.py.             *)
(*                                                                          *)
(* Strings the code splits or lower-cases (the Authorization header, the    *)
(* token) are sequences of one-character strings.  Python dicts are         *)
(* functions whose DOMAIN is the set of keys present.                       *)
(***************************************************************************)
EXTENDS Integers, Sequences, FiniteSets, TLC

VARIABLES pc, headers, permission, token, jwks, tok, rsa_key, payload,
          exception, trace, handlerCalls, handlerArg, response

vars == <<pc, headers, permission, token, jwks, tok, rsa_key, payload,
          exception, trace, handlerCalls, handlerArg, response>>

(* ------------------------------ bounds --------------------------------- *)
\* longest key set document ('keys' array) the endpoint returns
MaxKeys == 2
\* longest permissions array a token carries
MaxPerms == 2

(* ----------------------------- constants ------------------------------- *)
AUTH0_DOMAIN == "dev-sbac.auth0.com"
API_AUDIENCE == "coffeeshop"
Issuer == "https://dev-sbac.auth0.com/"

\* the empty dict {}
EmptyDict == [k \in {} |-> ""]
\* the empty str ''
EmptyStr == <<>>

\* dict d without key k
Without(d, k) == [x \in (DOMAIN d) \ {k} |-> d[x]]

\* all sequences over S of length at most n
SeqUpTo(S, n) == UNION {[1..m -> S] : m \in 0..n}

(* -------------------------- str.split, str.lower ----------------------- *)
RECURSIVE SplitAcc(_, _, _)
SplitAcc(s, cur, acc) ==
    IF s = <<>> THEN Append(acc, cur)
    ELSE IF Head(s) = " " THEN SplitAcc(Tail(s), <<>>, Append(acc, cur))
    ELSE SplitAcc(Tail(s), Append(cur, Head(s)), acc)

\* s.split(" "): every single space separates, empty parts are kept
Split(s) == SplitAcc(s, <<>>, <<>>)

LowerChar(c) ==
    CASE c = "B" -> "b"
      [] c = "E" -> "e"
      [] c = "A" -> "a"
      [] c = "R" -> "r"
      [] c = "S" -> "s"
      [] c = "I" -> "i"
      [] c = "C" -> "c"
      [] c = "T" -> "t"
      [] c = "X" -> "x"
      [] OTHER -> c

\* s.lower()
Lower(s) == [i \in DOMAIN s |-> LowerChar(s[i])]

bearer == <<"b", "e", "a", "r", "e", "r">>

(* ------------------------------ AuthError ------------------------------ *)
\* no exception raised
NoExc == [type |-> "None", status_code |-> 0, description |-> ""]

\* AuthError({'code': code, 'description': description}, code)
AuthError(description, status_code) ==
    [type |-> "AuthError", status_code |-> status_code,
     description |-> description]

\* an exception of the standard library or of jose that is not an AuthError
OtherError(type) == [type |-> type, status_code |-> 0, description |-> ""]

\* a function's outcome: the value returned, or the exception raised
Return(v) == [exc |-> NoExc, value |-> v]
Raise(e, v) == [exc |-> e, value |-> v]

(* ------------------------ get_token_auth_header ------------------------ *)
\* without the test for the header: None.split raises
get_token_auth_header_NoPresenceTest(h) ==
    IF "Authorization" \notin DOMAIN h
    THEN Raise(OtherError("AttributeError"), EmptyStr)
    ELSE LET auth_list == Split(h["Authorization"])
         IN  IF Len(auth_list) # 2
             THEN Raise(AuthError("Unauthorised.", 401), EmptyStr)
             ELSE IF Lower(auth_list[1]) # bearer
             THEN Raise(AuthError("Unauthorised.", 401), EmptyStr)
             ELSE Return(auth_list[2])

\* without .lower()
get_token_auth_header_NoLower(h) ==
    IF "Authorization" \notin DOMAIN h
    THEN Raise(AuthError("Unauthorised.", 401), EmptyStr)
    ELSE LET auth_list == Split(h["Authorization"])
         IN  IF Len(auth_list) # 2
             THEN Raise(AuthError("Unauthorised.", 401), EmptyStr)
             ELSE IF auth_list[1] # bearer
             THEN Raise(AuthError("Unauthorised.", 401), EmptyStr)
             ELSE Return(auth_list[2])

get_token_auth_header(h) ==
    IF "Authorization" \notin DOMAIN h
    THEN Raise(AuthError("Unauthorised.", 401), EmptyStr)
    ELSE LET auth_list == Split(h["Authorization"])
         IN  IF Len(auth_list) # 2
             THEN Raise(AuthError("Unauthorised.", 401), EmptyStr)
             ELSE IF Lower(auth_list[1]) # bearer
             THEN Raise(AuthError("Unauthorised.", 401), EmptyStr)
             ELSE Return(auth_list[2])

(* --------------------------- verify_decode_jwt ------------------------- *)
\* time of verification, between the two expiry timestamps tokens carry
Now == 1

\* json.loads(urlopen(...).read()): resp is what the network answers
urlopen_jwks(resp) ==
    IF resp.error # "None"
    THEN Raise(OtherError(resp.error), EmptyDict)
    ELSE Return(resp.body)

\* the one token text that is a well-formed compact JWS; what it holds is t
TokenText == <<"t">>

\* jwt.get_unverified_header(token)
get_unverified_header(tk, t) ==
    IF tk # TokenText
    THEN Raise(OtherError("JWTError"), EmptyDict)
    ELSE Return(t.header)

RsaKeyOf(key) ==
    [kty |-> key["kty"], kid |-> key["kid"], use |-> key["use"],
     n |-> key["n"], e |-> key["e"]]

\* the loop with the comparison of the kids left out
RECURSIVE SelectKey_AnyKid(_, _, _)
SelectKey_AnyKid(keys, kid, acc) ==
    IF keys = <<>> THEN Return(acc)
    ELSE LET key == Head(keys)
         IN  IF "kid" \notin DOMAIN key
             THEN Raise(OtherError("KeyError"), acc)
             ELSE IF {"kty", "use", "n", "e"} \subseteq DOMAIN key
             THEN SelectKey_AnyKid(Tail(keys), kid, RsaKeyOf(key))
             ELSE Raise(OtherError("KeyError"), acc)

\* the loop over jwks['keys']: the last entry whose kid matches is kept
RECURSIVE SelectKey(_, _, _)
SelectKey(keys, kid, acc) ==
    IF keys = <<>> THEN Return(acc)
    ELSE LET key == Head(keys)
         IN  IF "kid" \notin DOMAIN key
             THEN Raise(OtherError("KeyError"), acc)
             ELSE IF key["kid"] = kid
             THEN IF {"kty", "use", "n", "e"} \subseteq DOMAIN key
                  THEN SelectKey(Tail(keys), kid, RsaKeyOf(key))
                  ELSE Raise(OtherError("KeyError"), acc)
             ELSE SelectKey(Tail(keys), kid, acc)

\* jose's jwt.decode(token, rsa_key, algorithms, audience, issuer): the
\* signature first, then the claims exp, aud, iss in that order
jwt_decode(t, key, audience, issuer) ==
    IF t.sig # key["n"]
    THEN Raise(OtherError("JWTError"), EmptyDict)
    ELSE IF t.claims["exp"] < Now
    THEN Raise(OtherError("ExpiredSignatureError"), EmptyDict)
    ELSE IF t.claims["aud"] # audience
    THEN Raise(OtherError("JWTClaimsError"), EmptyDict)
    ELSE IF t.claims["iss"] # issuer
    THEN Raise(OtherError("JWTClaimsError"), EmptyDict)
    ELSE Return(t.claims)

\* the except clauses with JWTError, the base class, tried first
DecodeError_BaseClassFirst(e) ==
    CASE e.type \in {"JWTError", "ExpiredSignatureError", "JWTClaimsError"} ->
            AuthError("", 401)
      [] OTHER -> AuthError("", 401)

\* the except clauses around jwt.decode
DecodeError(e) ==
    CASE e.type = "ExpiredSignatureError" ->
            AuthError("Unauthorised. The token expired.", 401)
      [] e.type = "JWTClaimsError" -> AuthError("", 401)
      [] e.type = "JWTError" -> AuthError("", 401)
      [] OTHER -> AuthError("", 401)

\* verify_decode_jwt after the key set is read: [exc, value (the payload),
\* rsa_key (the local of that name when the function ends)]
Verified(exc, value, key) == [exc |-> exc, value |-> value, rsa_key |-> key]

verify_decode_jwt(tk, doc, t) ==
    LET hdr == get_unverified_header(tk, t)
    IN  IF hdr.exc # NoExc THEN Verified(hdr.exc, EmptyDict, EmptyDict)
        ELSE IF "kid" \notin DOMAIN hdr.value
        THEN Verified(AuthError("Unauthorised.", 401), EmptyDict, EmptyDict)
        ELSE IF "keys" \notin DOMAIN doc
        THEN Verified(OtherError("KeyError"), EmptyDict, EmptyDict)
        ELSE LET sel == SelectKey(doc["keys"], hdr.value["kid"], EmptyDict)
             IN  IF sel.exc # NoExc
                 THEN Verified(sel.exc, EmptyDict, sel.value)
                 ELSE IF DOMAIN sel.value # {}
                 THEN LET dec == jwt_decode(t, sel.value, API_AUDIENCE, Issuer)
                      IN  IF dec.exc # NoExc
                          THEN Verified(DecodeError(dec.exc), EmptyDict,
                                        sel.value)
                          ELSE Verified(NoExc, dec.value, sel.value)
                 ELSE Verified(OtherError("UnboundLocalError"), EmptyDict,
                               sel.value)

(* --------------------------- check_permissions ------------------------- *)
\* x in list
InList(x, list) == \E i \in DOMAIN list : list[i] = x

\* the check skipped for the empty permission
check_permissions_SkipEmpty(p, pl) ==
    IF p = "" THEN Return(TRUE)
    ELSE IF "permissions" \notin DOMAIN pl
    THEN Raise(AuthError(
             "You do not have permission to perform that action.", 403), FALSE)
    ELSE IF ~InList(p, pl["permissions"])
    THEN Raise(AuthError(
             "You do not have permission to perform that action.", 403), FALSE)
    ELSE Return(TRUE)

\* the permissions compared without regard to case
check_permissions_IgnoreCase(p, pl) ==
    IF "permissions" \notin DOMAIN pl
    THEN Raise(AuthError(
             "You do not have permission to perform that action.", 403), FALSE)
    ELSE IF ~InList(p, [i \in DOMAIN pl["permissions"] |->
                          IF pl["permissions"][i] = "POST:DRINKS"
                          THEN "post:drinks" ELSE pl["permissions"][i]])
    THEN Raise(AuthError(
             "You do not have permission to perform that action.", 403), FALSE)
    ELSE Return(TRUE)

check_permissions(p, pl) ==
    IF "permissions" \notin DOMAIN pl
    THEN Raise(AuthError(
             "You do not have permission to perform that action.", 403), FALSE)
    ELSE IF ~InList(p, pl["permissions"])
    THEN Raise(AuthError(
             "You do not have permission to perform that action.", 403), FALSE)
    ELSE Return(TRUE)

(* ------------------------------- inputs -------------------------------- *)
\* Authorization header values: scheme, separator, token text, trailer
Schemes == {bearer, <<"B", "E", "a", "r", "e", "R">>,
            <<"b", "a", "s", "i", "c">>,
            <<"b", "e", "a", "r", "e", "r", "s">>, <<>>}
Separators == {<<>>, <<" ">>, <<" ", " ">>, <<"\t">>}
TokenTexts == {TokenText, <<"x">>, <<>>}
Trailers == {<<>>, <<" ">>, <<" ", "x">>}
HeaderValues ==
    {s \o sep \o t \o tr :
        s \in Schemes, sep \in Separators, t \in TokenTexts, tr \in Trailers}

\* request.headers, as far as the guard reads it
RequestHeaders == {EmptyDict} \cup {[Authorization |-> v] : v \in HeaderValues}

\* the permission the decorator is given: the default and those of api.py
GuardPermissions == {"", "get:drinks-detail", "post:drinks"}

\* entries of the 'keys' array: complete ones, and ones lacking a field
CompleteKey(kid, n) ==
    [kty |-> "RSA", kid |-> kid, use |-> "sig", n |-> n, e |-> "AQAB"]
KeyEntries == {CompleteKey("k1", "A"), CompleteKey("k2", "B"),
               Without(CompleteKey("k1", "A"), "n"),
               Without(CompleteKey("k2", "B"), "kid")}

\* what the key set endpoint answers
Responses ==
    {[error |-> "URLError", body |-> EmptyDict],
     [error |-> "JSONDecodeError", body |-> EmptyDict],
     [error |-> "None", body |-> EmptyDict]}
    \cup {[error |-> "None", body |-> [keys |-> ks]] :
             ks \in SeqUpTo(KeyEntries, MaxKeys)}

\* permission strings a token may carry
TokenPermissions == {"post:drinks", "POST:DRINKS", ""}

WithPermissions(c, perms) ==
    [k \in DOMAIN c \cup {"permissions"} |->
        IF k = "permissions" THEN perms ELSE c[k]]

StandardClaims ==
    [iss : {Issuer, "https://other.auth0.com/"},
     aud : {API_AUDIENCE, "other"},
     exp : {0, 2}]

ValidClaims(c) ==
    c["iss"] = Issuer /\ c["aud"] = API_AUDIENCE /\ c["exp"] >= Now

\* payloads of tokens: the standard claims, with or without a permissions
\* array.  A payload with a defective standard claim carries one fixed
\* array: jwt.decode rejects it before anything reads the permissions.
TokenClaims ==
    {c \in StandardClaims : ValidClaims(c)}
    \cup {WithPermissions(c, ps) :
            c \in {x \in StandardClaims : ValidClaims(x)},
            ps \in SeqUpTo(TokenPermissions, MaxPerms)}
    \cup {WithPermissions(c, <<"post:drinks">>) :
            c \in {x \in StandardClaims : ~ValidClaims(x)}}

TokenHeaders ==
    {[alg |-> "RS256"]}
    \cup {[alg |-> "RS256", kid |-> k] : k \in {"k1", "k2", "k9"}}

\* what a well-formed token holds: its header, the modulus of the key pair
\* that signed it, its payload
Tokens == [header : TokenHeaders, sig : {"A", "B"}, claims : TokenClaims]

\* no token parsed
NoToken == [header |-> EmptyDict, sig |-> "", claims |-> EmptyDict]

\* status and message of no response
NoResponse == [status |-> 0, message |-> ""]

(* ------------------------------- actions ------------------------------- *)
Init ==
    /\ pc = "idle"
    /\ headers = EmptyDict
    /\ permission = ""
    /\ token = EmptyStr
    /\ jwks = EmptyDict
    /\ tok = NoToken
    /\ rsa_key = EmptyDict
    /\ payload = EmptyDict
    /\ exception = NoExc
    /\ trace = <<>>
    /\ handlerCalls = 0
    /\ handlerArg = EmptyDict
    /\ response = NoResponse

\* a request arrives at an endpoint decorated with requires_auth(p); requests
\* share no state, so one request stands for each of them
Request ==
    /\ pc = "idle"
    /\ \E h \in RequestHeaders, p \in GuardPermissions :
          /\ headers' = h
          /\ permission' = p
    /\ pc' = "get_token"
    /\ token' = EmptyStr
    /\ jwks' = EmptyDict
    /\ tok' = NoToken
    /\ rsa_key' = EmptyDict
    /\ payload' = EmptyDict
    /\ exception' = NoExc
    /\ trace' = <<>>
    /\ handlerCalls' = 0
    /\ handlerArg' = EmptyDict
    /\ response' = NoResponse

\* wrapper: token = get_token_auth_header()
GetTokenAuthHeader ==
    /\ pc = "get_token"
    /\ LET r == get_token_auth_header(headers)
       IN  /\ token' = r.value
           /\ exception' = r.exc
           /\ pc' = IF r.exc # NoExc THEN "raised" ELSE "fetch"
    /\ trace' = Append(trace, "token")
    /\ UNCHANGED <<headers, permission, jwks, tok, rsa_key, payload,
                   handlerCalls, handlerArg, response>>

\* verify_decode_jwt: the key set is fetched and decoded
FetchJwks ==
    /\ pc = "fetch"
    /\ \E resp \in Responses :
          LET r == urlopen_jwks(resp)
          IN  /\ jwks' = r.value
              /\ exception' = r.exc
              /\ pc' = IF r.exc # NoExc THEN "raised" ELSE "decode"
    /\ trace' = Append(trace, "keyset")
    /\ UNCHANGED <<headers, permission, token, tok, rsa_key, payload,
                   handlerCalls, handlerArg, response>>

\* verify_decode_jwt: the rest of the function
DecodeJwt ==
    /\ pc = "decode"
    /\ \E t \in Tokens :
          LET r == verify_decode_jwt(token, jwks, t)
          IN  /\ tok' = IF token = TokenText THEN t ELSE NoToken
              /\ rsa_key' = r.rsa_key
              /\ payload' = r.value
              /\ exception' = r.exc
              /\ pc' = IF r.exc # NoExc THEN "raised" ELSE "check"
    /\ trace' = Append(trace, "verify")
    /\ UNCHANGED <<headers, permission, token, jwks, handlerCalls,
                   handlerArg, response>>

\* the wrapper going on to the handler whatever check_permissions raised
CheckPermissions_ErrorIgnored ==
    /\ pc = "check"
    /\ LET r == check_permissions(permission, payload)
       IN  /\ exception' = r.exc
           /\ pc' = "call"
    /\ trace' = Append(trace, "permission")
    /\ UNCHANGED <<headers, permission, token, jwks, tok, rsa_key, payload,
                   handlerCalls, handlerArg, response>>

\* wrapper: check_permissions(permission, payload)
CheckPermissions ==
    /\ pc = "check"
    /\ LET r == check_permissions(permission, payload)
       IN  /\ exception' = r.exc
           /\ pc' = IF r.exc # NoExc THEN "raised" ELSE "call"
    /\ trace' = Append(trace, "permission")
    /\ UNCHANGED <<headers, permission, token, jwks, tok, rsa_key, payload,
                   handlerCalls, handlerArg, response>>

\* wrapper: return f(payload, *args, **kwargs); the endpoint answers with
\* its own status
CallHandler ==
    /\ pc = "call"
    /\ handlerCalls' = handlerCalls + 1
    /\ handlerArg' = payload
    /\ \E st \in {200, 404} : response' = [status |-> st, message |-> ""]
    /\ pc' = "responded"
    /\ trace' = Append(trace, "handler")
    /\ UNCHANGED <<headers, permission, token, jwks, tok, rsa_key, payload,
                   exception>>

\* @app.errorhandler(AuthError)
auth_error ==
    /\ pc = "raised"
    /\ exception.type = "AuthError"
    /\ response' = [status |-> exception.status_code,
                    message |-> exception.description]
    /\ pc' = "responded"
    /\ UNCHANGED <<headers, permission, token, jwks, tok, rsa_key, payload,
                   exception, trace, handlerCalls, handlerArg>>

\* @app.errorhandler(500): any exception that has no handler of its own
internal_server ==
    /\ pc = "raised"
    /\ exception.type # "AuthError"
    /\ response' = [status |-> 500,
                    message |-> "An internal server error occurred."]
    /\ pc' = "responded"
    /\ UNCHANGED <<headers, permission, token, jwks, tok, rsa_key, payload,
                   exception, trace, handlerCalls, handlerArg>>

Next ==
    \/ Request
    \/ GetTokenAuthHeader
    \/ FetchJwks
    \/ DecodeJwt
    \/ CheckPermissions
    \/ CallHandler
    \/ auth_error
    \/ internal_server

Spec == Init /\ [][Next]_vars

(* ------------------------- vocabulary of the claims -------------------- *)
\* the step has run in this request
Did(step) == \E i \in DOMAIN trace : trace[i] = step

GuardOrder == <<"token", "keyset", "verify", "permission", "handler">>

BEARER == <<"B", "E", "A", "R", "E", "R">>

\* the positions of the spaces of a header value
Spaces(h) == {i \in DOMAIN h : h[i] = " "}

\* h is '<scheme> <token>' with one space, the scheme 'bearer' in any case
BearerPair(h) ==
    /\ Cardinality(Spaces(h)) = 1
    /\ LET sp == CHOOSE i \in Spaces(h) : TRUE
       IN  /\ sp = 7
           /\ \A i \in 1..6 : h[i] \in {bearer[i], BEARER[i]}

\* the part after the space
TokenPart(h) == SubSeq(h, 1 + (CHOOSE i \in Spaces(h) : TRUE), Len(h))

\* the request failed in get_token_auth_header
TokenFailed == trace = <<"token">> /\ exception # NoExc

IsComplete(key) == {"kid", "kty", "use", "n", "e"} \subseteq DOMAIN key

\* a well-formed token with a kid met a key set document with a 'keys' array
KidAndKeys ==
    /\ Did("verify")
    /\ tok # NoToken
    /\ "kid" \in DOMAIN tok.header
    /\ "keys" \in DOMAIN jwks

\* the entries whose kid is the token's
Matching ==
    {i \in DOMAIN jwks["keys"] :
        /\ "kid" \in DOMAIN jwks["keys"][i]
        /\ jwks["keys"][i]["kid"] = tok.header["kid"]}

\* every entry of the key set has all five fields
AllComplete == \A i \in DOMAIN jwks["keys"] : IsComplete(jwks["keys"][i])

\* the code reaches jwt.decode: every entry has a kid, the matching ones are
\* complete, and there is one
DecodeReached ==
    /\ KidAndKeys
    /\ \A i \in DOMAIN jwks["keys"] : "kid" \in DOMAIN jwks["keys"][i]
    /\ \A i \in Matching : IsComplete(jwks["keys"][i])
    /\ Matching # {}

\* the entry the loop ends with
LastMatch ==
    jwks["keys"][CHOOSE i \in Matching : \A j \in Matching : j <= i]

SignedByMatch == tok.sig = LastMatch["n"]

Denied == AuthError("You do not have permission to perform that action.", 403)

ExpiredDescription == "Unauthorised. The token expired."

(* -------------------------------- claims ------------------------------- *)
\* C1: the handler is invoked only after get_token_auth_header,
\* verify_decode_jwt and check_permissions all returned in this request, once,
\* with the decoded payload as its argument; after any exception no step
\* runs and the handler is never invoked.
C1_FailClosed ==
    /\ handlerCalls > 0 =>
          /\ trace = GuardOrder
          /\ handlerCalls = 1
          /\ exception = NoExc
          /\ tok # NoToken
          /\ handlerArg = tok.claims
    /\ exception # NoExc => handlerCalls = 0 /\ pc \in {"raised", "responded"}

C1_Witness ==
    /\ handlerCalls = 1
    /\ "permissions" \in DOMAIN handlerArg
    /\ handlerArg = tok.claims

\* C2: a well-formed token whose kid matches no entry of a key set of
\* complete entries is rejected with an AuthError of status 401.
C2_UnknownKidIs401 ==
    (KidAndKeys /\ AllComplete /\ Matching = {}) =>
        /\ exception.type = "AuthError"
        /\ exception.status_code = 401

\* C3: a request ends with the handler invoked, or with an AuthError of
\* status 401 or 403 answered by the auth_error handler with that status.
C3_EveryFailureIsAuthError ==
    pc = "responded" =>
        \/ handlerCalls = 1 /\ exception = NoExc
        \/ /\ exception.type = "AuthError"
           /\ exception.status_code \in {401, 403}
           /\ response.status = exception.status_code

\* C4 as stated: with the empty required permission the permission check
\* always passes once the token is verified.
C4_EmptyPermissionSkipsCheck ==
    (Did("permission") /\ permission = "") => exception = NoExc

\* C4 as amended: with the empty required permission the check is made like
\* any other: it passes exactly when the payload has a permissions list that
\* holds the empty string, and fails with status 403 otherwise.
C4_EmptyPermissionIsChecked ==
    (Did("permission") /\ permission = "") =>
        IF /\ "permissions" \in DOMAIN payload
           /\ \E i \in DOMAIN payload["permissions"] :
                 payload["permissions"][i] = ""
        THEN exception = NoExc /\ pc \in {"call", "responded"}
        ELSE exception = Denied /\ handlerCalls = 0

C4_Witness ==
    /\ Did("permission")
    /\ permission = ""
    /\ "permissions" \in DOMAIN payload
    /\ payload["permissions"] = <<"post:drinks">>
    /\ response.status = 403

\* C5: a request without an Authorization header is rejected with status 401
\* and the key set is not fetched; the key set is fetched only in a request
\* whose header is a bearer pair.
C5_NoFetchWithoutToken ==
    /\ ("Authorization" \notin DOMAIN headers /\ Did("token")) =>
          /\ exception = AuthError("Unauthorised.", 401)
          /\ ~Did("keyset")
          /\ jwks = EmptyDict
          /\ pc = "responded" => response.status = 401
    /\ Did("keyset") =>
          /\ "Authorization" \in DOMAIN headers
          /\ BearerPair(headers["Authorization"])

C5_Witness ==
    /\ "Authorization" \notin DOMAIN headers
    /\ pc = "responded"
    /\ response.status = 401

\* C6: with a non-empty required permission p, check_permissions passes
\* exactly when the payload has a permissions list with an element equal to
\* p; otherwise it fails with status 403.
C6_ExactPermission ==
    (Did("permission") /\ permission # "") =>
        IF /\ "permissions" \in DOMAIN payload
           /\ \E i \in DOMAIN payload["permissions"] :
                 payload["permissions"][i] = permission
        THEN exception = NoExc /\ pc \in {"call", "responded"}
        ELSE exception = Denied /\ handlerCalls = 0

C6_Witness ==
    /\ Did("permission")
    /\ permission = "post:drinks"
    /\ "permissions" \in DOMAIN payload
    /\ payload["permissions"] = <<"POST:DRINKS", "post:drinks">>
    /\ handlerCalls = 1

\* C7: for a present header value h, get_token_auth_header returns the part
\* after the space when h is a bearer pair, and fails with status 401 for
\* every other h.
C7_BearerPairOnly ==
    ("Authorization" \in DOMAIN headers /\ Did("token")) =>
        IF BearerPair(headers["Authorization"])
        THEN ~TokenFailed /\ token = TokenPart(headers["Authorization"])
        ELSE TokenFailed /\ exception = AuthError("Unauthorised.", 401)

C7_Witness ==
    /\ Did("keyset")
    /\ headers["Authorization"][1] = "B"
    /\ token = TokenText

\* C8: a token that fails only by its expiry is rejected with status 401 and
\* the expiry description, which no other rejection carries; a bad signature
\* or another bad claim is rejected with status 401 and the empty description.
C8_ExpiredIsDistinct ==
    /\ (DecodeReached /\ SignedByMatch /\ tok.claims["exp"] < Now) =>
          exception = AuthError(ExpiredDescription, 401)
    /\ (DecodeReached /\ (~SignedByMatch \/ (tok.claims["exp"] >= Now
                                            /\ ~ValidClaims(tok.claims)))) =>
          exception = AuthError("", 401)
    /\ exception.description = ExpiredDescription =>
          DecodeReached /\ SignedByMatch /\ tok.claims["exp"] < Now

C8_Witness ==
    /\ DecodeReached
    /\ SignedByMatch
    /\ tok.claims["exp"] < Now
    /\ tok.claims["aud"] = API_AUDIENCE
    /\ tok.claims["iss"] = Issuer
    /\ response = [status |-> 401, message |-> ExpiredDescription]

\* the outcome of verification over the complete entries alone
CompleteOnly == [keys |-> SelectSeq(jwks["keys"], IsComplete)]

\* C9: an entry lacking a required field is never the verification key, and
\* a token whose kid matches a complete entry is verified as if the entries
\* lacking a field were not there.
C9_IncompleteEntriesDropped ==
    KidAndKeys =>
        /\ DOMAIN rsa_key # {} =>
              \E i \in DOMAIN jwks["keys"] :
                 IsComplete(jwks["keys"][i]) /\ rsa_key = jwks["keys"][i]
        /\ (\E i \in Matching : IsComplete(jwks["keys"][i])) =>
              LET r == verify_decode_jwt(token, CompleteOnly, tok)
              IN  exception.type # "KeyError" /\
                  (trace = <<"token", "keyset", "verify">> =>
                      exception = r.exc /\ payload = r.value)

\* C10: the steps run in the order token, key set, verification,
\* permission, handler and stop at the first failure; check_permissions
\* runs only with the payload of a token whose signature and claims were
\* verified with the key set entry whose kid is the token's.
C10_VerifiedBeforePermission ==
    /\ \E n \in 0..Len(GuardOrder) : trace = SubSeq(GuardOrder, 1, n)
    /\ exception # NoExc => pc \in {"raised", "responded"}
    /\ Did("permission") =>
          /\ BearerPair(headers["Authorization"])
          /\ token = TokenPart(headers["Authorization"])
          /\ DecodeReached
          /\ rsa_key = LastMatch
          /\ rsa_key["kid"] = tok.header["kid"]
          /\ SignedByMatch
          /\ ValidClaims(tok.claims)
          /\ payload = tok.claims

C10_Witness ==
    /\ Did("permission")
    /\ Len(jwks["keys"]) = 2
    /\ jwks["keys"][1]["kid"] # tok.header["kid"]
    /\ exception = Denied

(* ------------------------------ witnesses ------------------------------ *)
\* C2: an unknown kid met a key set of complete entries
C2_Reached ==
    /\ KidAndKeys
    /\ AllComplete
    /\ Matching = {}
    /\ Len(jwks["keys"]) > 0
    /\ pc = "responded"

\* C9: a token whose kid matches a complete entry met a key set that also
\* holds an entry lacking a field
C9_Reached ==
    /\ KidAndKeys
    /\ \E i \in Matching : IsComplete(jwks["keys"][i])
    /\ ~AllComplete
    /\ pc = "responded"

====
